---- MODULE Spec2Model ----
(***************************************************************************)
(* Model of the iMessage backup website generator:                         *)
(*   src/utils.py         convert_date, get_archive_format                 *)
(*   src/html_creator.py  HtmlCreator.create_website and the methods it    *)
(*                        calls (_create_chat_page, _create_index_page,    *)
(*                        _get_chat_name)                                  *)
(*                                                                         *)
(* Python strings are TLA+ strings, Python lists are sequences, a dict     *)
(* read from JSON is a record whose DOMAIN is its key set (an absent key   *)
(* is an absent field), and a participant map, whose insertion order the   *)
(* code relies on, is a sequence of [id, name] records with distinct ids.  *)
(* A JSON value that is a string or null (a message's sender, text and     *)
(* attachment_path, a chat's display_name) is S(s) for the string s and    *)
(* None for null, so that no string stands for None.  Strings hold the     *)
(* characters up to U+00FF.                                                *)
(***************************************************************************)
EXTENDS Integers, Sequences, FiniteSets, TLC

VARIABLES
    pc,             \* position of the running program
    date,           \* convert_date: the argument (a BigInt, see below)
    date_result,    \* convert_date: the returned value (a BigInt)
    filename,       \* get_archive_format: the name of the Path argument
    archive_result, \* get_archive_format: what the call produced
    tz,             \* the name of the process's local time zone
    docs,           \* the chat JSON documents as they are on disk, in glob order
    chat_data,      \* create_website: the list chat_data (mutated in place)
    pages,          \* out_dir/chats: the chat pages written so far
    index,          \* out_dir/index.html: the entries of the index page
    error           \* the exception that ended the run, or NoError

vars == <<pc, date, date_result, filename, archive_result, tz, docs, chat_data,
          pages, index, error>>

\* JSON null / Python None.
None == << >>

\* The str s, in a place that holds a str or None.
S(s) == << s >>

NoError == "<no error>"

----------------------------------------------------------------------------
(***************************************************************************)
(* src/utils.py: convert_date.                                             *)
(*                                                                         *)
(* Python integers are unbounded and the threshold, 978307200 * 10^6, is   *)
(* beyond the integers TLC computes with, so an integer v is held as two   *)
(* limbs [hi, lo] with v = hi * 10^9 + lo and 0 <= lo < 10^9 (hi carries   *)
(* the sign).  With that, v // 1000**3 is hi.                              *)
(***************************************************************************)

\* utils.py line 10: 1000**3, the nanoseconds in a second; also the limb base.
NanosPerSecond == 1000000000

\* utils.py line 6: Apple's epoch, 2001-01-01, as a UNIX timestamp.
epoch == 978307200

BigInt(h, l) == [hi |-> h, lo |-> l]

\* The limbs of a machine-size integer n.
FromInt(n) == BigInt(n \div NanosPerSecond, n % NanosPerSecond)

\* a + n for a BigInt a and a machine-size integer n >= 0.
AddInt(a, n) ==
    LET s == a.lo + n
    IN  BigInt(a.hi + (s \div NanosPerSecond), s % NanosPerSecond)

\* a > b on BigInts.
Gt(a, b) == \/ a.hi > b.hi
            \/ a.hi = b.hi /\ a.lo > b.lo

\* utils.py line 8: epoch * 1000**2.  epoch = 978307 * 1000 + 200, hence
\* epoch * 10^6 = 978307 * 10^9 + 200 * 10^6.
Threshold == BigInt(epoch \div 1000, (epoch % 1000) * 1000000)

\* The same function with the boundary value taken as nanoseconds.
convert_date_ge(d) ==
    IF Gt(d, Threshold) \/ d = Threshold
    THEN FromInt(d.hi + epoch)
    ELSE AddInt(d, epoch)

convert_date(d) ==
    IF Gt(d, Threshold)
    THEN FromInt(d.hi + epoch)      \* date // 1000**3 + epoch
    ELSE AddInt(d, epoch)           \* date + epoch

----------------------------------------------------------------------------
(***************************************************************************)
(* Strings.                                                                *)
(***************************************************************************)

\* The characters up to U+00FF that str.lower() changes, and what it makes of
\* them.
UpperCase == "ABCDEFGHIJKLMNOPQRSTUVWXYZÀÁÂÃÄÅÆÇÈÉÊËÌÍÎÏÐÑÒÓÔÕÖØÙÚÛÜÝÞ"
LowerCase == "abcdefghijklmnopqrstuvwxyzàáâãäåæçèéêëìíîïðñòóôõöøùúûüýþ"

CharAt(s, i) == SubSeq(s, i, i)

\* str.lower() on one character.
LowerChar(c) ==
    IF \E i \in 1..Len(UpperCase) : CharAt(UpperCase, i) = c
    THEN CharAt(LowerCase, CHOOSE i \in 1..Len(UpperCase) : CharAt(UpperCase, i) = c)
    ELSE c

RECURSIVE Lower(_)
Lower(s) == IF s = "" THEN ""
            ELSE LowerChar(CharAt(s, 1)) \o Lower(SubSeq(s, 2, Len(s)))

\* str.endswith
EndsWith(s, t) == /\ Len(t) <= Len(s)
                  /\ SubSeq(s, Len(s) - Len(t) + 1, Len(s)) = t

\* str.rfind('.'), 1-based; 0 when there is no dot.
RFindDot(s) ==
    LET dots == {i \in 1..Len(s) : CharAt(s, i) = "."}
    IN  IF dots = {} THEN 0 ELSE CHOOSE i \in dots : \A j \in dots : j <= i

\* separator.join(list)
RECURSIVE Join(_, _)
Join(sep, list) ==
    IF list = <<>> THEN ""
    ELSE IF Len(list) = 1 THEN list[1]
    ELSE list[1] \o sep \o Join(sep, Tail(list))

----------------------------------------------------------------------------
(***************************************************************************)
(* src/utils.py: get_archive_format.                                       *)
(***************************************************************************)

\* pathlib.PurePath.suffix of a file name: the part from the last dot on, when
\* that dot is neither the first nor the last character; '' otherwise.
Suffix(name) ==
    LET i == RFindDot(name)
    IN  IF 1 < i /\ i < Len(name) THEN SubSeq(name, i, Len(name)) ELSE ""

\* utils.py lines 27-36: the dict formats, in insertion order.
formats == << [ext |-> ".zip",     fmt |-> "zip"],
              [ext |-> ".tar",     fmt |-> "tar"],
              [ext |-> ".tgz",     fmt |-> "gztar"],
              [ext |-> ".tar.gz",  fmt |-> "gztar"],
              [ext |-> ".tbz",     fmt |-> "bztar"],
              [ext |-> ".tar.bz2", fmt |-> "bztar"],
              [ext |-> ".txz",     fmt |-> "xztar"],
              [ext |-> ".tar.xz",  fmt |-> "xztar"] >>

FormatKeys == [i \in 1..Len(formats) |-> formats[i].ext]

HasKey(table, k) == \E i \in 1..Len(table) : table[i].ext = k

Lookup(table, k) == table[CHOOSE i \in 1..Len(table) : table[i].ext = k].fmt

get_archive_format(name) ==
    LET extension == Lower(Suffix(name))
    IN  IF ~HasKey(formats, extension)
        THEN [kind    |-> "raise",
              exc     |-> "ValueError",
              message |-> "Unsupported archive format: " \o extension
                          \o ". Supported formats are: " \o Join(", ", FormatKeys)]
        ELSE [kind |-> "return", value |-> Lookup(formats, extension)]

----------------------------------------------------------------------------
(***************************************************************************)
(* datetime.fromtimestamp(t).strftime(...), html_creator.py lines 99-101   *)
(* and 179: the local calendar date and wall-clock time of a UNIX          *)
(* timestamp, in the proleptic Gregorian calendar.                         *)
(***************************************************************************)

\* tzdata, America/New_York.
NewYorkTransitions ==
    << <<-1633280400, -14400>>, <<-1615140000, -18000>>, <<-1601830800, -14400>>, <<-1583690400, -18000>>,
       <<-1570381200, -14400>>, <<-1551636000, -18000>>, <<-1536512400, -14400>>, <<-1523210400, -18000>>,
       <<-1504458000, -14400>>, <<-1491760800, -18000>>, <<-1473008400, -14400>>, <<-1459706400, -18000>>,
       <<-1441558800, -14400>>, <<-1428256800, -18000>>, <<-1410109200, -14400>>, <<-1396807200, -18000>>,
       <<-1378659600, -14400>>, <<-1365357600, -18000>>, <<-1347210000, -14400>>, <<-1333908000, -18000>>,
       <<-1315155600, -14400>>, <<-1301853600, -18000>>, <<-1283706000, -14400>>, <<-1270404000, -18000>>,
       <<-1252256400, -14400>>, <<-1238954400, -18000>>, <<-1220806800, -14400>>, <<-1207504800, -18000>>,
       <<-1189357200, -14400>>, <<-1176055200, -18000>>, <<-1157302800, -14400>>, <<-1144605600, -18000>>,
       <<-1125853200, -14400>>, <<-1112551200, -18000>>, <<-1094403600, -14400>>, <<-1081101600, -18000>>,
       <<-1062954000, -14400>>, <<-1049652000, -18000>>, <<-1031504400, -14400>>, <<-1018202400, -18000>>,
       <<-1000054800, -14400>>, <<-986752800, -18000>>, <<-968000400, -14400>>, <<-955303200, -18000>>,
       <<-936550800, -14400>>, <<-923248800, -18000>>, <<-905101200, -14400>>, <<-891799200, -18000>>,
       <<-880218000, -14400>>, <<-769395600, -14400>>, <<-765396000, -18000>>, <<-747248400, -14400>>,
       <<-733946400, -18000>>, <<-715798800, -14400>>, <<-702496800, -18000>>, <<-684349200, -14400>>,
       <<-671047200, -18000>>, <<-652899600, -14400>>, <<-639597600, -18000>>, <<-620845200, -14400>>,
       <<-608148000, -18000>>, <<-589395600, -14400>>, <<-576093600, -18000>>, <<-557946000, -14400>>,
       <<-544644000, -18000>>, <<-526496400, -14400>>, <<-513194400, -18000>>, <<-495046800, -14400>>,
       <<-481744800, -18000>>, <<-463597200, -14400>>, <<-447271200, -18000>>, <<-431542800, -14400>>,
       <<-415821600, -18000>>, <<-400093200, -14400>>, <<-384372000, -18000>>, <<-368643600, -14400>>,
       <<-352922400, -18000>>, <<-337194000, -14400>>, <<-321472800, -18000>>, <<-305744400, -14400>>,
       <<-289418400, -18000>>, <<-273690000, -14400>>, <<-257968800, -18000>>, <<-242240400, -14400>>,
       <<-226519200, -18000>>, <<-210790800, -14400>>, <<-195069600, -18000>>, <<-179341200, -14400>>,
       <<-163620000, -18000>>, <<-147891600, -14400>>, <<-131565600, -18000>>, <<-116442000, -14400>>,
       <<-100116000, -18000>>, <<-84387600, -14400>>, <<-68666400, -18000>>, <<-52938000, -14400>>,
       <<-37216800, -18000>>, <<-21488400, -14400>>, <<-5767200, -18000>>, <<9961200, -14400>>,
       <<25682400, -18000>>, <<41410800, -14400>>, <<57736800, -18000>>, <<73465200, -14400>>,
       <<89186400, -18000>>, <<104914800, -14400>>, <<120636000, -18000>>, <<126687600, -14400>>,
       <<152085600, -18000>>, <<162370800, -14400>>, <<183535200, -18000>>, <<199263600, -14400>>,
       <<215589600, -18000>>, <<230713200, -14400>>, <<247039200, -18000>>, <<262767600, -14400>>,
       <<278488800, -18000>>, <<294217200, -14400>>, <<309938400, -18000>>, <<325666800, -14400>>,
       <<341388000, -18000>>, <<357116400, -14400>>, <<372837600, -18000>>, <<388566000, -14400>>,
       <<404892000, -18000>>, <<420015600, -14400>>, <<436341600, -18000>>, <<452070000, -14400>>,
       <<467791200, -18000>>, <<483519600, -14400>>, <<499240800, -18000>>, <<514969200, -14400>>,
       <<530690400, -18000>>, <<544604400, -14400>>, <<562140000, -18000>>, <<576054000, -14400>>,
       <<594194400, -18000>>, <<607503600, -14400>>, <<625644000, -18000>>, <<638953200, -14400>>,
       <<657093600, -18000>>, <<671007600, -14400>>, <<688543200, -18000>>, <<702457200, -14400>>,
       <<719992800, -18000>>, <<733906800, -14400>>, <<752047200, -18000>>, <<765356400, -14400>>,
       <<783496800, -18000>>, <<796806000, -14400>>, <<814946400, -18000>>, <<828860400, -14400>>,
       <<846396000, -18000>>, <<860310000, -14400>>, <<877845600, -18000>>, <<891759600, -14400>>,
       <<909295200, -18000>>, <<923209200, -14400>>, <<941349600, -18000>>, <<954658800, -14400>>,
       <<972799200, -18000>>, <<986108400, -14400>>, <<1004248800, -18000>>, <<1018162800, -14400>>,
       <<1035698400, -18000>>, <<1049612400, -14400>>, <<1067148000, -18000>>, <<1081062000, -14400>>,
       <<1099202400, -18000>>, <<1112511600, -14400>>, <<1130652000, -18000>>, <<1143961200, -14400>>,
       <<1162101600, -18000>>, <<1173596400, -14400>>, <<1194156000, -18000>>, <<1205046000, -14400>>,
       <<1225605600, -18000>>, <<1236495600, -14400>>, <<1257055200, -18000>>, <<1268550000, -14400>>,
       <<1289109600, -18000>>, <<1299999600, -14400>>, <<1320559200, -18000>>, <<1331449200, -14400>>,
       <<1352008800, -18000>>, <<1362898800, -14400>>, <<1383458400, -18000>>, <<1394348400, -14400>>,
       <<1414908000, -18000>>, <<1425798000, -14400>>, <<1446357600, -18000>>, <<1457852400, -14400>>,
       <<1478412000, -18000>>, <<1489302000, -14400>>, <<1509861600, -18000>>, <<1520751600, -14400>>,
       <<1541311200, -18000>>, <<1552201200, -14400>>, <<1572760800, -18000>>, <<1583650800, -14400>>,
       <<1604210400, -18000>>, <<1615705200, -14400>>, <<1636264800, -18000>>, <<1647154800, -14400>>,
       <<1667714400, -18000>>, <<1678604400, -14400>>, <<1699164000, -18000>>, <<1710054000, -14400>>,
       <<1730613600, -18000>>, <<1741503600, -14400>>, <<1762063200, -18000>>, <<1772953200, -14400>>,
       <<1793512800, -18000>>, <<1805007600, -14400>>, <<1825567200, -18000>>, <<1836457200, -14400>>,
       <<1857016800, -18000>>, <<1867906800, -14400>>, <<1888466400, -18000>>, <<1899356400, -14400>>,
       <<1919916000, -18000>>, <<1930806000, -14400>>, <<1951365600, -18000>>, <<1962860400, -14400>>,
       <<1983420000, -18000>>, <<1994310000, -14400>>, <<2014869600, -18000>>, <<2025759600, -14400>>,
       <<2046319200, -18000>>, <<2057209200, -14400>>, <<2077768800, -18000>>, <<2088658800, -14400>>,
       <<2109218400, -18000>>, <<2120108400, -14400>>, <<2140668000, -18000>> >>

\* The civil date [year, month, day] of day number z (days since 1970-01-01).
CivilFromDays(z) ==
    LET s   == z + 719468
        era == s \div 146097
        doe == s - era * 146097
        yoe == (doe - (doe \div 1460) + (doe \div 36524) - (doe \div 146096)) \div 365
        doy == doe - (365 * yoe + (yoe \div 4) - (yoe \div 100))
        mp  == (5 * doy + 2) \div 153
        d   == doy - ((153 * mp + 2) \div 5) + 1
        m   == IF mp < 10 THEN mp + 3 ELSE mp - 9
        y   == yoe + era * 400 + (IF m <= 2 THEN 1 ELSE 0)
    IN  [year |-> y, month |-> m, day |-> d]

\* The zones the model knows, as the zone files of the platform give them
\* for the timestamps from -2^31 + 1 to 2^31 - 1: the offset east of UTC, in
\* seconds, at the start of that range, and the later changes <<instant,
\* offset from that instant on>>, in order of time.
Zones ==
    [name \in {"UTC", "America/New_York"} |->
        IF name = "UTC" THEN [initial |-> 0, transitions |-> << >>]
        ELSE [initial |-> -18000, transitions |-> NewYorkTransitions]]

\* The offset east of UTC, in seconds, that the zone has at the instant t.
UtcOffset(zone, t) ==
    LET z    == Zones[zone]
        past == Cardinality({i \in 1..Len(z.transitions) : z.transitions[i][1] <= t})
    IN  IF past = 0 THEN z.initial ELSE z.transitions[past][2]

\* datetime.fromtimestamp(t) in the local time zone, which gives the offset
\* of each instant by its own rules.
fromtimestamp(t, zone) ==
    LET local == t + UtcOffset(zone, t)
        c     == CivilFromDays(local \div 86400)
        sec   == local % 86400
    IN  [year |-> c.year, month |-> c.month, day |-> c.day,
         hour |-> sec \div 3600, minute |-> (sec % 3600) \div 60]

Pad2(n) == IF n < 10 THEN "0" \o ToString(n) ELSE ToString(n)

\* %Y as the platform's strftime (glibc) renders it: the year in decimal,
\* not padded to four digits.
Year(n) == ToString(n)

\* strftime('%Y-%m-%d')
FormatDate(dt) == Year(dt.year) \o "-" \o Pad2(dt.month) \o "-" \o Pad2(dt.day)

\* strftime('%I:%M %p')
FormatTime(dt) ==
    LET h12 == IF dt.hour % 12 = 0 THEN 12 ELSE dt.hour % 12
    IN  Pad2(h12) \o ":" \o Pad2(dt.minute) \o " "
        \o (IF dt.hour < 12 THEN "AM" ELSE "PM")

\* strftime('%Y-%m-%d %I:%M %p')
FormatDateTime(dt) == FormatDate(dt) \o " " \o FormatTime(dt)

----------------------------------------------------------------------------
(***************************************************************************)
(* Python built-ins used by html_creator.py.                               *)
(***************************************************************************)

\* key in dict
Has(d, k) == k \in DOMAIN d

\* bool(v) of a str or None
Truthy(v) == v # None /\ v # S("")

\* str(v), as an f-string renders a str or None
Str(v) == IF v = None THEN "None" ELSE v[1]

\* x in list
In(list, x) == \E i \in 1..Len(list) : list[i] = x

\* list.remove(x): drops the first occurrence of x.
Remove(list, x) ==
    LET i == CHOOSE k \in 1..Len(list) :
                   list[k] = x /\ \A j \in 1..(k - 1) : list[j] # x
    IN  SubSeq(list, 1, i - 1) \o SubSeq(list, i + 1, Len(list))

\* list(participants.values())
Values(participants) == [i \in 1..Len(participants) |-> participants[i].name]

\* participants.get(key, default), for a key and a default that are a str or
\* None; the keys of the map are strs.
Get(participants, key, default) ==
    IF \E i \in 1..Len(participants) : S(participants[i].id) = key
    THEN S(participants[CHOOSE i \in 1..Len(participants) :
                            S(participants[i].id) = key].name)
    ELSE default

\* The place element i takes when a list with these keys is sorted by
\* list.sort / sorted, which are stable, also under reverse=True: elements
\* with equal keys keep the order they had.
Rank(keys, i, reverse) ==
    Cardinality({j \in 1..Len(keys) : IF reverse THEN keys[j] > keys[i]
                                                 ELSE keys[j] < keys[i]})
    + Cardinality({j \in 1..(i - 1) : keys[j] = keys[i]}) + 1

\* The same sort losing the order of equal keys (they come out reversed).
UnstableSorted(list, keys, reverse) ==
    [k \in 1..Len(list) |->
        list[CHOOSE i \in 1..Len(list) :
                 Cardinality({j \in 1..Len(keys) : IF reverse THEN keys[j] > keys[i]
                                                              ELSE keys[j] < keys[i]})
                 + Cardinality({j \in (i + 1)..Len(keys) : keys[j] = keys[i]}) + 1 = k]]

\* sorted(list, key=..., reverse=...) given the list of the elements' keys.
Sorted(list, keys, reverse) ==
    [k \in 1..Len(list) |->
        list[CHOOSE i \in 1..Len(list) : Rank(keys, i, reverse) = k]]

----------------------------------------------------------------------------
(***************************************************************************)
(* src/html_creator.py: HtmlCreator._get_chat_name.                        *)
(***************************************************************************)

\* The same function listing two names, not three, for a large group.
GetChatNameTwo(chat) ==
    LET all          == Values(chat.participants)
        participants == IF In(all, "Me") THEN Remove(all, "Me") ELSE all
    IN  IF participants = <<>> THEN "Empty Chat"
        ELSE IF Len(participants) = 1 THEN participants[1]
        ELSE IF Len(participants) > 3
             THEN Join(", ", SubSeq(participants, 1, 2)) \o "... ("
                  \o ToString(Len(participants)) \o " people)"
             ELSE Join(", ", participants)

_get_chat_name(chat) ==
    LET all          == Values(chat.participants)
        participants == IF In(all, "Me") THEN Remove(all, "Me") ELSE all
    IN  IF participants = <<>> THEN "Empty Chat"
        ELSE IF Len(participants) = 1 THEN participants[1]
        ELSE IF Len(participants) > 3
             THEN Join(", ", SubSeq(participants, 1, 3)) \o "... ("
                  \o ToString(Len(participants)) \o " people)"
             ELSE Join(", ", participants)

\* chat.get('display_name') or self._get_chat_name(chat)
ChatName(chat) ==
    IF Has(chat, "display_name") /\ Truthy(chat.display_name)
    THEN Str(chat.display_name)
    ELSE _get_chat_name(chat)

----------------------------------------------------------------------------
(***************************************************************************)
(* src/html_creator.py: HtmlCreator._create_chat_page.                     *)
(***************************************************************************)

\* The keys of a message the loop body subscripts (lines 99-130); a message
\* lacking one of them raises KeyError.
MessageKeys == {"date", "sender", "is_from_me", "text", "attachment_path"}

ImageExtensions == <<".jpg", ".jpeg", ".png", ".gif">>

\* Lines 125-136: the elements inside the message-content div.
MessageContent(message) ==
    (IF Truthy(message.text)
     THEN << [tag |-> "p", text |-> Str(message.text)] >>
     ELSE << >>)
    \o
    (IF Truthy(message.attachment_path)
     THEN IF \E i \in 1..Len(ImageExtensions) :
                 EndsWith(Lower(Str(message.attachment_path)), ImageExtensions[i])
          THEN << [tag |-> "img",
                   src |-> "../attachments/" \o Str(message.attachment_path)] >>
          ELSE << [tag |-> "a",
                   href |-> "../attachments/" \o Str(message.attachment_path),
                   text |-> "Attachment: " \o Str(message.attachment_path)] >>
     ELSE << >>)

\* Lines 108-123: the message div, with its sender and its side.
MessageDiv(message, participants, zone) ==
    LET sender_id   == message.sender
        looked_up   == Get(participants, sender_id, sender_id)
        sender_name == IF message.is_from_me THEN S("Me") ELSE looked_up
    IN  [kind    |-> "message",
         class   |-> IF message.is_from_me THEN "message-outgoing"
                                           ELSE "message-incoming",
         sender  |-> Str(sender_name),
         time    |-> FormatTime(fromtimestamp(message.date, zone)),
         content |-> MessageContent(message)]

\* The loop with a divider before every message (current_date never kept).
RECURSIVE RenderMessagesForgetful(_, _, _, _)
RenderMessagesForgetful(messages, current_date, participants, zone) ==
    IF messages = <<>> THEN <<>>
    ELSE LET message  == Head(messages)
             date_str == FormatDate(fromtimestamp(message.date, zone))
         IN  << [kind |-> "date-divider", text |-> date_str] >>
             \o << MessageDiv(message, participants, zone) >>
             \o RenderMessagesForgetful(Tail(messages), current_date,
                                        participants, zone)

\* Lines 97-139: the loop over the sorted messages, from the value current_date
\* has when the loop reaches them.
RECURSIVE RenderMessages(_, _, _, _)
RenderMessages(messages, current_date, participants, zone) ==
    IF messages = <<>> THEN <<>>
    ELSE LET message  == Head(messages)
             date_str == FormatDate(fromtimestamp(message.date, zone))
         IN  (IF current_date # S(date_str)
              THEN << [kind |-> "date-divider", text |-> date_str] >>
              ELSE << >>)
             \o << MessageDiv(message, participants, zone) >>
             \o RenderMessages(Tail(messages), S(date_str), participants, zone)

MessageDates(messages) == [i \in 1..Len(messages) |-> messages[i].date]

\* Line 75 with a sort that does not keep the order of equal dates.
SortMessagesUnstable(messages) ==
    UnstableSorted(messages, MessageDates(messages), FALSE)

\* Line 75: messages.sort(key=lambda m: m['date'])
SortMessages(messages) == Sorted(messages, MessageDates(messages), FALSE)

\* Whether the loop raises KeyError on one of the messages.
LoopRaises(messages) ==
    \E i \in 1..Len(messages) : ~(MessageKeys \subseteq DOMAIN messages[i])

\* Lines 77-145: the page, for a chat whose messages are sorted.
ChatPage(chat, zone) ==
    [chat_id      |-> chat.chat_id,
     chat_name    |-> ChatName(chat),
     participants |-> Join(", ", Values(chat.participants)),
     body         |-> RenderMessages(chat.messages, None, chat.participants, zone)]

----------------------------------------------------------------------------
(***************************************************************************)
(* src/html_creator.py: HtmlCreator._create_index_page.                    *)
(***************************************************************************)

\* The length a preview is cut to (line 192).
PreviewLength == 50

\* The preview cut without the marker.
LastMessageNoMarker(messages) ==
    LET sorted_messages == Sorted(messages, MessageDates(messages), TRUE)
        with_text == {i \in 1..Len(sorted_messages) : Truthy(sorted_messages[i].text)}
    IN  IF with_text = {} THEN ""
        ELSE LET msg == sorted_messages[CHOOSE i \in with_text :
                                            \A j \in with_text : i <= j]
             IN  IF Len(Str(msg.text)) > PreviewLength
                 THEN SubSeq(Str(msg.text), 1, PreviewLength)
                 ELSE Str(msg.text)

\* Lines 181-194: the text of the newest message that has text, cut to
\* PreviewLength characters.
LastMessage(messages) ==
    LET sorted_messages == Sorted(messages, MessageDates(messages), TRUE)
        with_text == {i \in 1..Len(sorted_messages) : Truthy(sorted_messages[i].text)}
    IN  IF with_text = {} THEN ""
        ELSE LET msg == sorted_messages[CHOOSE i \in with_text :
                                            \A j \in with_text : i <= j]
             IN  IF Len(Str(msg.text)) > PreviewLength
                 THEN SubSeq(Str(msg.text), 1, PreviewLength) \o "..."
                 ELSE Str(msg.text)

\* c['last_message_date'], the timestamp lines 154 and 179 read from the document.
IndexTimestamp(chat) == chat.last_message_date

\* Line 154: chats.sort(key=lambda c: c['last_message_date'], reverse=True)
SortChats(chats) ==
    Sorted(chats, [i \in 1..Len(chats) |-> IndexTimestamp(chats[i])], TRUE)

\* Lines 176-203: the entry of one chat.
IndexEntry(chat, zone) ==
    [chat_id           |-> chat.chat_id,
     chat_name         |-> ChatName(chat),
     last_message      |-> LastMessage(chat.messages),
     last_message_date |-> FormatDateTime(fromtimestamp(IndexTimestamp(chat), zone))]

----------------------------------------------------------------------------
(***************************************************************************)
(* src/html_creator.py: HtmlCreator.create_website.                        *)
(***************************************************************************)

\* One turn of the loop of lines 45-49: load the next chat file, append it to
\* chat_data and create its page.  The sort of line 75 is in place, so it shows
\* in chat_data; an exception in the loop leaves no page and ends the run.
CreateChatPage ==
    /\ pc = "create_website"
    /\ Len(chat_data) < Len(docs)
    /\ LET chat_json == docs[Len(chat_data) + 1]
           sorted    == [chat_json EXCEPT !.messages = SortMessages(@)]
       IN  /\ chat_data' = Append(chat_data, sorted)
           /\ IF LoopRaises(sorted.messages)
              THEN /\ pages' = pages
                   /\ pc' = "failed"
                   /\ error' = "KeyError"
              ELSE /\ pages' = Append(pages, ChatPage(sorted, tz))
                   /\ UNCHANGED <<pc, error>>
    /\ UNCHANGED <<date, date_result, filename, archive_result, tz, docs, index>>

\* Line 52: _create_index_page(chat_data), once every chat has its page.  A
\* chat without the key last_message_date raises KeyError in the sort key, and
\* nothing is sorted or written.
CreateIndexPage ==
    /\ pc = "create_website"
    /\ Len(chat_data) = Len(docs)
    /\ IF \E i \in 1..Len(chat_data) : ~Has(chat_data[i], "last_message_date")
       THEN /\ pc' = "failed"
            /\ error' = "KeyError"
            /\ UNCHANGED <<chat_data, index>>
       ELSE /\ chat_data' = SortChats(chat_data)
            /\ index' = [i \in 1..Len(chat_data) |-> IndexEntry(chat_data'[i], tz)]
            /\ pc' = "done"
            /\ error' = error
    /\ UNCHANGED <<date, date_result, filename, archive_result, tz, docs, pages>>

\* A call of convert_date.
ConvertDate ==
    /\ pc = "convert_date"
    /\ date_result' = convert_date(date)
    /\ pc' = "convert_date returned"
    /\ UNCHANGED <<date, filename, archive_result, tz, docs, chat_data, pages,
                   index, error>>

\* A call of get_archive_format.
GetArchiveFormat ==
    /\ pc = "get_archive_format"
    /\ archive_result' = get_archive_format(filename)
    /\ error' = IF archive_result'.kind = "raise" THEN archive_result'.exc ELSE error
    /\ pc' = "get_archive_format returned"
    /\ UNCHANGED <<date, date_result, filename, tz, docs, chat_data, pages, index>>

----------------------------------------------------------------------------
(***************************************************************************)
(* The inputs the model runs the code on.                                  *)
(***************************************************************************)

\* How far around each interesting value the arguments of convert_date reach.
DateSpread == 1

\* The longest message list of a chat.
MaxMessages == 3

\* The largest participant map of a chat.
MaxParticipants == 5

\* The largest number of chat files.
MaxChats == 4

Near(c, n) == (c - n)..(c + n)

SeqsUpTo(elements, n) == UNION {[1..k -> elements] : k \in 0..n}

\* Arguments of convert_date: around zero, around the threshold, around the
\* value whose sum with epoch carries into the next limb, and today's
\* nanosecond timestamps (about 815 * 10^6 seconds after 2001).
DateInputs(spread) ==
    {BigInt(h, l) :
        h \in Near(0, spread) \cup Near(Threshold.hi, spread)
              \cup (815000000..(815000000 + spread)),
        l \in (0..spread) \cup Near(Threshold.lo, spread)
              \cup Near(NanosPerSecond - epoch, spread)
              \cup ((NanosPerSecond - 1 - spread)..(NanosPerSecond - 1))}

\* Arguments of get_archive_format.
FileStems == {"backup", "my.backup", "B", "2024-01-01"}

FileEndings == {".zip", ".ZIP", ".tar", ".tgz", ".tar.gz", ".TAR.GZ", ".tbz",
                ".tar.bz2", ".txz", ".tar.xz", ".rar", ".gz", ".", ""}

FileNames == {stem \o ending : stem \in FileStems, ending \in FileEndings}

\* Time zones: UTC, and New York with its daylight saving time.
TzNames == {"UTC", "America/New_York"}

Text50 == "abcdefghijabcdefghijabcdefghijabcdefghijabcdefghij"
Text51 == Text50 \o "k"
Text60 == Text50 \o "0123456789"

\* 2023-11-14 23:59:59 UTC, the next second (2023-11-15 00:00:00 UTC), and an
\* hour after that; in New York all three are of 2023-11-14.  JulyEvening is
\* 2023-07-02 03:30 UTC, 2023-07-01 23:30 in New York's daylight saving time.
Midnight == 19676 * 86400
BeforeMidnight == Midnight - 1
AfterMidnight == Midnight + 3600
JulyEvening == 19540 * 86400 + 12600

Message(sender, is_from_me, d, text, attachment_path) ==
    [sender |-> sender, is_from_me |-> is_from_me, date |-> d, text |-> text,
     attachment_path |-> attachment_path]

\* The same message in a document that has no key 'sender'.
MessageWithoutSender(is_from_me, d, text, attachment_path) ==
    [is_from_me |-> is_from_me, date |-> d, text |-> text,
     attachment_path |-> attachment_path]

ChatParticipants == << [id |-> "0", name |-> "Me"],
                       [id |-> "1", name |-> "Alice"],
                       [id |-> "2", name |-> "Bob"] >>

ChatMessages ==
    { Message(S("1"), FALSE, BeforeMidnight, S("hi"), None),
      Message(S("2"), FALSE, BeforeMidnight, S(""), S("photo.JPG")),
      Message(S("1"), TRUE, BeforeMidnight, S(Text50), None),
      Message(S("+15550100"), FALSE, Midnight, S(Text60), None),
      Message(None, TRUE, Midnight, S("bye"), S("doc.pdf")),
      Message(S("2"), FALSE, Midnight, None, S("clip.mov")),
      Message(S("0"), TRUE, AfterMidnight, S(Text51), None),
      Message(None, FALSE, AfterMidnight, S(""), None),
      Message(S("1"), FALSE, JulyEvening, S("ok"), None),
      MessageWithoutSender(TRUE, Midnight, S("sent"), None) }

\* One chat with every message list of at most n messages.
ChatDocs(n) ==
    { << [chat_id |-> "7", participants |-> ChatParticipants, messages |-> ms,
          last_message_date |-> AfterMidnight] >> :
        ms \in SeqsUpTo(ChatMessages, n) }

Names == {"Me", "Alice", "Bob", "Carol", "Dave"}

\* The participant map with these names under the ids "1", "2", ...
ParticipantMap(names) ==
    [i \in 1..Len(names) |-> [id |-> ToString(i), name |-> names[i]]]

\* One chat without messages, with every participant map of at most n names,
\* and with or without a display name.
NameDocs(n) ==
    LET plain(names) == [chat_id |-> "7", participants |-> ParticipantMap(names),
                         messages |-> <<>>, last_message_date |-> Midnight]
    IN  { << plain(names) >> : names \in SeqsUpTo(Names, n) }
        \cup
        { << plain(names) @@ [display_name |-> dn] >> :
            names \in SeqsUpTo(Names, n),
            dn \in {None, S(""), S("Family")} }

\* The i-th of the chats of a website: a chat with or without messages whose document
\* gives a last_message_date, or a chat without messages whose document gives
\* none.
SiteChat(i) ==
    LET plain(ms) == [chat_id |-> ToString(i), participants |-> ChatParticipants,
                      messages |-> ms]
        lists     == { <<>>, << Message(S("1"), FALSE, 200, S("hello"), None) >> }
    IN  { plain(<<>>) }
        \cup { plain(ms) @@ [last_message_date |-> d] :
                 ms \in lists, d \in {100, 200, 300} }

RECURSIVE SiteDocsOfLen(_)
SiteDocsOfLen(n) ==
    IF n = 0 THEN { <<>> }
    ELSE { Append(d, c) : d \in SiteDocsOfLen(n - 1), c \in SiteChat(n) }

\* The websites of at most n chats.
SiteDocs(n) == UNION { SiteDocsOfLen(k) : k \in 0..n }

----------------------------------------------------------------------------
(***************************************************************************)
(* Specifications.                                                         *)
(***************************************************************************)

NoResult == [kind |-> "none"]

Idle ==
    /\ date = BigInt(0, 0)
    /\ date_result = NoResult
    /\ filename = ""
    /\ archive_result = NoResult
    /\ chat_data = <<>>
    /\ pages = <<>>
    /\ index = <<>>
    /\ error = NoError

\* create_website over the chat files docset, in the time zones zones.
InitWebsite(docset, zones) ==
    /\ pc = "create_website"
    /\ tz \in zones
    /\ docs \in docset
    /\ Idle

NextWebsite == CreateChatPage \/ CreateIndexPage

\* The website of several chats.
Init == InitWebsite(SiteDocs(MaxChats), {"UTC"})
Next == NextWebsite
Spec == Init /\ [][Next]_vars

\* The website of one chat, over its messages.
InitChat == InitWebsite(ChatDocs(MaxMessages), TzNames)
SpecChat == InitChat /\ [][NextWebsite]_vars

\* The website of one chat, over its participants and display name.
InitName == InitWebsite(NameDocs(MaxParticipants), {"UTC"})
SpecName == InitName /\ [][NextWebsite]_vars

\* convert_date on its own.
InitDate ==
    /\ pc = "convert_date"
    /\ date \in DateInputs(DateSpread)
    /\ date_result = NoResult
    /\ filename = ""
    /\ archive_result = NoResult
    /\ tz = "UTC"
    /\ docs = <<>>
    /\ chat_data = <<>>
    /\ pages = <<>>
    /\ index = <<>>
    /\ error = NoError
SpecDate == InitDate /\ [][ConvertDate]_vars

\* get_archive_format on its own.
InitArchive ==
    /\ pc = "get_archive_format"
    /\ filename \in FileNames
    /\ archive_result = NoResult
    /\ date = BigInt(0, 0)
    /\ date_result = NoResult
    /\ tz = "UTC"
    /\ docs = <<>>
    /\ chat_data = <<>>
    /\ pages = <<>>
    /\ index = <<>>
    /\ error = NoError
SpecArchive == InitArchive /\ [][GetArchiveFormat]_vars

----------------------------------------------------------------------------
(***************************************************************************)
(* Properties.                                                             *)
(***************************************************************************)

\* The document a chat of chat_data was loaded from.
DocOf(chat) == docs[CHOOSE j \in 1..Len(docs) : docs[j].chat_id = chat.chat_id]

HasPage(chat) == \E p \in 1..Len(pages) : pages[p].chat_id = chat.chat_id

PageOf(chat) == pages[CHOOSE p \in 1..Len(pages) : pages[p].chat_id = chat.chat_id]

IsMessage(item) == item.kind = "message"

\* The message divs of a page body, in order.
MessageItems(body) == SelectSeq(body, IsMessage)

\* The position in the body of its k-th message div.
PositionOf(body, k) ==
    CHOOSE q \in 1..Len(body) :
        /\ body[q].kind = "message"
        /\ Cardinality({r \in 1..q : body[r].kind = "message"}) = k

\* Whether a date divider stands right before the k-th message div.
DividerBefore(body, k) ==
    LET q == PositionOf(body, k)
    IN  q > 1 /\ body[q - 1].kind = "date-divider"

\* The text a message div shows, "" when it shows none.
TextShown(item) ==
    IF \E e \in 1..Len(item.content) : item.content[e].tag = "p"
    THEN item.content[CHOOSE e \in 1..Len(item.content) : item.content[e].tag = "p"].text
    ELSE ""

\* The local day number of a timestamp.
LocalDay(t) == (t + UtcOffset(tz, t)) \div 86400

\* s contains t
Contains(s, t) ==
    \E i \in 1..(Len(s) - Len(t) + 1) : SubSeq(s, i, i + Len(t) - 1) = t

\* ------------------------------------------------------------------ C1 ----
\* C1: convert_date returns a result for every integer r, which is
\* r + 978307200 when r <= 978307200 * 10^6 (the boundary included) and
\* floor(r / 10^9) + 978307200 when r is larger.  Stated on the limbs: the sum
\* by the difference of result and argument, the floor by the two multiples of
\* 10^9 that enclose the argument.
C1_ConvertDate ==
    pc = "convert_date returned" =>
        /\ date_result.lo \in 0..999999999
        /\ IF date.hi < 978307 \/ (date.hi = 978307 /\ date.lo <= 200000000)
           THEN /\ date_result.hi - date.hi \in 0..1
                /\ (date_result.hi - date.hi) * 1000000000
                   + (date_result.lo - date.lo) = 978307200
           ELSE /\ date_result.hi \in 0..1
                /\ LET n == date_result.hi * 1000000000 + date_result.lo - 978307200
                   IN  /\ ~Gt(BigInt(n, 0), date)
                       /\ Gt(BigInt(n + 1, 0), date)

\* The boundary value 978307200 * 10^6 has been converted as seconds.
C1_Witness ==
    /\ pc = "convert_date returned"
    /\ date = BigInt(978307, 200000000)
    /\ date_result = BigInt(978308, 178307200)

\* ------------------------------------------------------------------ C2 ----
\* C2: the messages of a chat whose page has been created are the messages of
\* its document in non-decreasing order of date, messages of equal date in the
\* order the document had them, and the page shows one message div for each,
\* in that order; a chat without messages has an empty page body.
C2_MessageOrder ==
    \A c \in 1..Len(chat_data) :
        LET input  == DocOf(chat_data[c]).messages
            output == chat_data[c].messages
            n      == Len(input)
        IN  /\ Len(output) = n
            /\ \A k \in 1..(n - 1) : output[k].date <= output[k + 1].date
            /\ \E p \in Permutations(1..n) :
                   /\ \A k \in 1..n : output[k] = input[p[k]]
                   /\ \A k, l \in 1..n :
                          (k < l /\ output[k].date = output[l].date) => p[k] < p[l]
            /\ HasPage(chat_data[c]) =>
                   LET items == MessageItems(PageOf(chat_data[c]).body)
                   IN  /\ Len(items) = n
                       /\ n = 0 => PageOf(chat_data[c]).body = <<>>
                       /\ \A k \in 1..n :
                              TextShown(items[k])
                                  = (IF output[k].text \in {None, S("")} THEN ""
                                     ELSE output[k].text[1])

\* A page has been written for a document that lists a later message first
\* and two different messages of one date.
C2_Witness ==
    /\ Len(pages) = 1
    /\ Len(docs[1].messages) = 3
    /\ docs[1].messages[1].date > docs[1].messages[2].date
    /\ docs[1].messages[2].date = docs[1].messages[3].date
    /\ docs[1].messages[2] # docs[1].messages[3]

\* ------------------------------------------------------------------ C3 ----
\* C3: on a chat page a date divider stands right before a message exactly
\* when the message is the first one or its local calendar day differs from
\* that of the message before it; a divider stands nowhere else.
C3_DateDividers ==
    \A c \in 1..Len(chat_data) :
        HasPage(chat_data[c]) =>
            LET body     == PageOf(chat_data[c]).body
                messages == chat_data[c].messages
            IN  /\ \A k \in 1..Len(messages) :
                       DividerBefore(body, k)
                           <=> \/ k = 1
                               \/ LocalDay(messages[k].date)
                                      # LocalDay(messages[k - 1].date)
                /\ \A q \in 1..Len(body) :
                       body[q].kind = "date-divider" =>
                           q < Len(body) /\ body[q + 1].kind = "message"

\* A page with two messages of one day followed by a message of the next day.
C3_Witness ==
    /\ Len(pages) = 1
    /\ Len(pages[1].body) = 5
    /\ pages[1].body[1].kind = "date-divider"
    /\ pages[1].body[2].kind = "message"
    /\ pages[1].body[3].kind = "message"
    /\ pages[1].body[4].kind = "date-divider"
    /\ pages[1].body[5].kind = "message"


\* ----------------------------------------------------------- C4 and C5 ----
\* Whether the document of a chat overrides the derived name.
HasOverride(doc) == Has(doc, "display_name") /\ Truthy(doc.display_name)

IsNotMe(name) == name # "Me"

\* The participant names with every "Me" taken out.
WithoutAnyMe(doc) == SelectSeq(Values(doc.participants), IsNotMe)

\* The participant names with the first "Me" taken out.
WithoutFirstMe(doc) ==
    LET all == Values(doc.participants)
        mes == {i \in 1..Len(all) : all[i] = "Me"}
    IN  IF mes = {} THEN all
        ELSE LET first == CHOOSE i \in mes : \A j \in mes : i <= j
             IN  [k \in 1..(Len(all) - 1) |-> IF k < first THEN all[k] ELSE all[k + 1]]

\* The names the website shows for the chats: on their pages and in the index.
ShownNames(doc) ==
    {pages[p].chat_name : p \in {q \in 1..Len(pages) : pages[q].chat_id = doc.chat_id}}
    \cup
    {index[e].chat_name : e \in {f \in 1..Len(index) : index[f].chat_id = doc.chat_id}}

\* C4 as the specification states it: without an override and with more than
\* three participants left once the self label is removed, the name is the
\* first three names joined with ", ", then " ... (", the count, " people)".
C4_SpacedEllipsis ==
    \A d \in 1..Len(docs) :
        LET rest == WithoutAnyMe(docs[d])
        IN  (~HasOverride(docs[d]) /\ Len(rest) > 3) =>
                \A name \in ShownNames(docs[d]) :
                    name = rest[1] \o ", " \o rest[2] \o ", " \o rest[3]
                           \o " ... (" \o ToString(Len(rest)) \o " people)"

\* C4, amended: without an override and with more than three names left once
\* the first "Me" is taken out of the participant names, the name is the first
\* three of them joined with ", ", directly followed by "... (", the number of
\* names left, and " people)".
C4_GroupName ==
    \A d \in 1..Len(docs) :
        LET rest == WithoutFirstMe(docs[d])
        IN  (~HasOverride(docs[d]) /\ Len(rest) > 3) =>
                \A name \in ShownNames(docs[d]) :
                    name = rest[1] \o ", " \o rest[2] \o ", " \o rest[3]
                           \o "... (" \o ToString(Len(rest)) \o " people)"

\* The chat of Alice, Bob, Carol and Dave has its page and its index entry.
C4_Witness ==
    /\ pc = "done"
    /\ ~HasOverride(docs[1])
    /\ Values(docs[1].participants) = <<"Alice", "Bob", "Carol", "Dave">>
    /\ pages[1].chat_name = "Alice, Bob, Carol... (4 people)"
    /\ index[1].chat_name = "Alice, Bob, Carol... (4 people)"

\* C5: the name shown on the chat page and in the index is the override when
\* there is one; otherwise, with every "Me" removed from the participant
\* names, it is "Empty Chat" for none left, the name for one left, and the
\* names joined with ", " in map order for two or three left.
C5_ChatName ==
    \A d \in 1..Len(docs) :
        LET rest == WithoutAnyMe(docs[d])
        IN  \A name \in ShownNames(docs[d]) :
                IF HasOverride(docs[d]) THEN S(name) = docs[d].display_name
                ELSE /\ Len(rest) = 0 => name = "Empty Chat"
                     /\ Len(rest) = 1 => name = rest[1]
                     /\ Len(rest) = 2 => name = rest[1] \o ", " \o rest[2]
                     /\ Len(rest) = 3 => name = rest[1] \o ", " \o rest[2]
                                                \o ", " \o rest[3]

\* What holds of the code: C5 for the maps that name "Me" at most once.
C5_AtMostOneMe ==
    \A d \in 1..Len(docs) :
        Len(WithoutAnyMe(docs[d])) >= Len(docs[d].participants) - 1 =>
            LET rest == WithoutAnyMe(docs[d])
            IN  \A name \in ShownNames(docs[d]) :
                    IF HasOverride(docs[d]) THEN S(name) = docs[d].display_name
                    ELSE /\ Len(rest) = 0 => name = "Empty Chat"
                         /\ Len(rest) = 1 => name = rest[1]
                         /\ Len(rest) = 2 => name = rest[1] \o ", " \o rest[2]
                         /\ Len(rest) = 3 => name = rest[1] \o ", " \o rest[2]
                                                    \o ", " \o rest[3]


\* ------------------------------------------------------------------ C6 ----
\* Whether create_website has got past its call of _create_index_page.
IndexPageCalled == Len(chat_data) = Len(docs) /\ pc # "create_website"

\* The entries of the index, as the positions their documents had in docs.
IndexOrder ==
    [e \in 1..Len(index) |->
        CHOOSE j \in 1..Len(docs) : docs[j].chat_id = index[e].chat_id]

\* C6: the index page is produced without a failure and lists every chat:
\* the chats that have a last-message timestamp first, by that timestamp
\* descending, then those without one; chats of equal timestamp, and chats
\* without one, in the order of the input.
C6_IndexOrder ==
    IndexPageCalled =>
        /\ pc = "done"
        /\ Len(index) = Len(docs)
        /\ \A j \in 1..Len(docs) : \E e \in 1..Len(index) : IndexOrder[e] = j
        /\ \A e, f \in 1..Len(index) :
               e < f =>
                   LET a == docs[IndexOrder[e]]
                       b == docs[IndexOrder[f]]
                   IN  IF ~Has(a, "last_message_date")
                       THEN ~Has(b, "last_message_date")
                            /\ IndexOrder[e] < IndexOrder[f]
                       ELSE Has(b, "last_message_date") =>
                                \/ a.last_message_date > b.last_message_date
                                \/ /\ a.last_message_date = b.last_message_date
                                   /\ IndexOrder[e] < IndexOrder[f]

\* What holds of the code: C6 when every document has the key.
C6_AllTimestamped ==
    (IndexPageCalled /\ \A j \in 1..Len(docs) : Has(docs[j], "last_message_date")) =>
        /\ pc = "done"
        /\ Len(index) = Len(docs)
        /\ \A j \in 1..Len(docs) : \E e \in 1..Len(index) : IndexOrder[e] = j
        /\ \A e, f \in 1..Len(index) :
               e < f =>
                   LET a == docs[IndexOrder[e]]
                       b == docs[IndexOrder[f]]
                   IN  \/ a.last_message_date > b.last_message_date
                       \/ /\ a.last_message_date = b.last_message_date
                          /\ IndexOrder[e] < IndexOrder[f]

\* ------------------------------------------------------------------ C7 ----
\* C7: the preview of an index entry is taken from the newest message that has
\* text (the first of them in the chat's list when several share that date):
\* the text itself when it has at most 50 characters, else its first 50
\* characters followed by "..."; it is "" when no message has text.
C7_Preview ==
    pc = "done" =>
        \A e \in 1..Len(index) :
            LET messages  == chat_data[e].messages
                preview   == index[e].last_message
                with_text == {k \in 1..Len(messages) :
                                 messages[k].text \notin {None, S("")}}
            IN  /\ index[e].chat_id = chat_data[e].chat_id
                /\ IF with_text = {} THEN preview = ""
                   ELSE LET newest == CHOOSE k \in with_text :
                                \A l \in with_text :
                                    \/ messages[l].date < messages[k].date
                                    \/ messages[l].date = messages[k].date /\ k <= l
                            text   == messages[newest].text[1]
                        IN  IF Len(text) <= 50 THEN preview = text
                            ELSE /\ Len(preview) = 53
                                 /\ SubSeq(preview, 1, 50) = SubSeq(text, 1, 50)
                                 /\ SubSeq(preview, 51, 53) = "..."

\* The 60-character text, newest in its chat, has been cut for the index.
C7_Witness ==
    /\ pc = "done"
    /\ Len(docs[1].messages) = 3
    /\ docs[1].messages[1].text = S(Text60)
    /\ docs[1].messages[2].date < docs[1].messages[1].date
    /\ docs[1].messages[3].text = S("")
    /\ index[1].last_message = Text50 \o "..."

\* ------------------------------------------------------------------ C8 ----
\* C8: every message of a chat is rendered, whether or not it has a sender id
\* and whether or not the id is a key of the participant map: as "Me" on the
\* outgoing side when is_from_me, else on the incoming side under the name the
\* map has for the sender id, or under the id itself when the map has none.
C8_Sender ==
    \A c \in 1..Len(chat_data) :
        /\ HasPage(chat_data[c])
        /\ LET messages == chat_data[c].messages
               items    == MessageItems(PageOf(chat_data[c]).body)
               names    == chat_data[c].participants
           IN  /\ Len(items) = Len(messages)
               /\ \A k \in 1..Len(messages) :
                      IF messages[k].is_from_me
                      THEN /\ items[k].sender = "Me"
                           /\ items[k].class = "message-outgoing"
                      ELSE /\ items[k].class = "message-incoming"
                           /\ \/ \E i \in 1..Len(names) :
                                     /\ S(names[i].id) = messages[k].sender
                                     /\ items[k].sender = names[i].name
                              \/ /\ \A i \in 1..Len(names) :
                                        S(names[i].id) # messages[k].sender
                                 /\ items[k].sender = Str(messages[k].sender)

\* What holds of the code: C8 for the chats whose messages all have the key
\* 'sender' (its value may be null, or no key of the map).
C8_SenderKeyPresent ==
    \A c \in 1..Len(chat_data) :
        (\A k \in 1..Len(chat_data[c].messages) :
             Has(chat_data[c].messages[k], "sender")) =>
            /\ HasPage(chat_data[c])
            /\ LET messages == chat_data[c].messages
                   items    == MessageItems(PageOf(chat_data[c]).body)
                   names    == chat_data[c].participants
               IN  /\ Len(items) = Len(messages)
                   /\ \A k \in 1..Len(messages) :
                          IF messages[k].is_from_me
                          THEN /\ items[k].sender = "Me"
                               /\ items[k].class = "message-outgoing"
                          ELSE /\ items[k].class = "message-incoming"
                               /\ \/ \E i \in 1..Len(names) :
                                         /\ S(names[i].id) = messages[k].sender
                                         /\ items[k].sender = names[i].name
                                  \/ /\ \A i \in 1..Len(names) :
                                            S(names[i].id) # messages[k].sender
                                     /\ items[k].sender = Str(messages[k].sender)

\* ------------------------------------------------------------------ C9 ----
\* The extensions of the table a file name ends in, case-insensitively.
EndingsOf(name) ==
    {i \in 1..Len(formats) : EndsWith(Lower(name), formats[i].ext)}

\* C9: get_archive_format returns the format the table gives for the extension
\* a file name ends in, and for a name that ends in none of them it raises an
\* error that names the supported extensions.
C9_ArchiveFormat ==
    pc = "get_archive_format returned" =>
        IF EndingsOf(filename) # {}
        THEN /\ archive_result.kind = "return"
             /\ \E i \in EndingsOf(filename) : archive_result.value = formats[i].fmt
        ELSE /\ archive_result.kind = "raise"
             /\ archive_result.exc = "ValueError"
             /\ Contains(archive_result.message, Lower(Suffix(filename)))
             /\ \A i \in 1..Len(formats) :
                    Contains(archive_result.message, formats[i].ext)

\* What holds of the code: C9 with the extension being the last suffix of the
\* name alone, which no two-part extension of the table ever is.
C9_LastSuffix ==
    pc = "get_archive_format returned" =>
        LET last == {i \in 1..Len(formats) : Lower(Suffix(filename)) = formats[i].ext}
        IN  IF last # {}
            THEN /\ archive_result.kind = "return"
                 /\ \E i \in last : archive_result.value = formats[i].fmt
                 /\ \A i \in last : formats[i].ext \notin {".tar.gz", ".tar.bz2", ".tar.xz"}
            ELSE /\ archive_result.kind = "raise"
                 /\ archive_result.exc = "ValueError"
                 /\ Contains(archive_result.message, Lower(Suffix(filename)))
                 /\ \A i \in 1..Len(formats) :
                        Contains(archive_result.message, formats[i].ext)

\* ----------------------------------------------------------------- C10 ----
\* C10 as the specification states it: for a chat that has messages, the
\* date of its index entry is that of its newest message, whatever the
\* document gives as last_message_date.
C10_ComputedTimestamp ==
    pc = "done" =>
        \A e \in 1..Len(index) :
            LET messages == chat_data[e].messages
            IN  messages # <<>> =>
                    index[e].last_message_date
                        = FormatDateTime(fromtimestamp(messages[Len(messages)].date, tz))

\* What the code does instead: the index dates every chat it lists with the
\* value its document gives as last_message_date and orders the chats by
\* that value, descending; the dates of the messages play no part.
C10_DocumentTimestamp ==
    pc = "done" =>
        /\ \A e \in 1..Len(index) :
               index[e].last_message_date
                   = FormatDateTime(fromtimestamp(docs[IndexOrder[e]].last_message_date, tz))
        /\ \A e \in 1..(Len(index) - 1) :
               docs[IndexOrder[e]].last_message_date
                   >= docs[IndexOrder[e + 1]].last_message_date

====
